---- MODULE Spec2Model ----
(***************************************************************************)
(* Model of src/weather.py: CSV loading, min/max/mean aggregation,         *)
(* Fahrenheit-to-Celsius conversion, date formatting and the two reports.  *)
(*                                                                         *)
(* Python values are modelled as follows.                                  *)
(*   str    a sequence of one-character strings                            *)
(*   float  [nan, num, den]: the rational num/den in TENTHS of a degree,   *)
(*          or not-a-number                                                *)
(*   value  [ty, s, f]: a str (ty = "str") or a float (ty = "float")       *)
(*   call outcome  [kind, val, err, at]: kind "return" with val, or kind   *)
(*          "raise" with the exception class err raised at source line at  *)
(***************************************************************************)
EXTENDS Integers, Sequences, FiniteSets, TLC

\* ------------------------------------------------------------------ bounds
MaxLen == 3        \* longest temperature sequence / dataset handed to a call
MaxRows == 3       \* most rows (header included) in a CSV source
MaxIters == 2      \* the iteration counter of the while loop saturates here

\* ------------------------------------------------------- call outcomes
Ret(v) == [kind |-> "return", val |-> v, err |-> "none", at |-> 0]
Raise(e, line) == [kind |-> "raise", val |-> <<>>, err |-> e, at |-> line]
NoResult == [kind |-> "none", val |-> <<>>, err |-> "none", at |-> 0]

\* ------------------------------------------------------------- floats
Float(n, d) == [nan |-> FALSE, num |-> n, den |-> d]
NaN == [nan |-> TRUE, num |-> 0, den |-> 1]

\* a == b, a < b, a > b on Python floats: every comparison with nan is False
FEq(a, b) == ~a.nan /\ ~b.nan /\ a.num * b.den = b.num * a.den
FLt(a, b) == ~a.nan /\ ~b.nan /\ a.num * b.den < b.num * a.den
FGt(a, b) == FLt(b, a)

PyStr(s) == [ty |-> "str", s |-> s, f |-> NaN]
PyFloat(x) == [ty |-> "float", s |-> <<>>, f |-> x]

\* ------------------------------------------------------ float(<str>)
DigitChars == <<"0", "1", "2", "3", "4", "5", "6", "7", "8", "9">>
IsDigit(c) == \E i \in 1..10 : DigitChars[i] = c
DigitVal(c) == (CHOOSE i \in 1..10 : DigitChars[i] = c) - 1

RECURSIVE DigitsToInt(_)
DigitsToInt(s) ==
    IF s = <<>> THEN 0
    ELSE 10 * DigitsToInt(SubSeq(s, 1, Len(s) - 1)) + DigitVal(s[Len(s)])

RECURSIVE Pow10(_)
Pow10(k) == IF k = 0 THEN 1 ELSE 10 * Pow10(k - 1)

DotPositions(s) == {i \in 1..Len(s) : s[i] = "."}

\* an unsigned decimal literal: digits, at most one ".", at least one digit
IsDecimal(s) ==
    /\ Cardinality(DotPositions(s)) <= 1
    /\ \A i \in 1..Len(s) : IsDigit(s[i]) \/ s[i] = "."
    /\ \E i \in 1..Len(s) : IsDigit(s[i])

\* value of an unsigned decimal literal, in tenths
DecimalValue(s) ==
    IF DotPositions(s) = {} THEN Float(10 * DigitsToInt(s), 1)
    ELSE LET p == CHOOSE i \in DotPositions(s) : TRUE
             ip == SubSeq(s, 1, p - 1)
             fp == SubSeq(s, p + 1, Len(s))
             k == Len(fp)
         IN IF k = 0 THEN Float(10 * DigitsToInt(ip), 1)
            ELSE Float(DigitsToInt(ip) * Pow10(k) + DigitsToInt(fp), Pow10(k - 1))

Negate(x) == Float(0 - x.num, x.den)

\* float(s) for a str s.  The literal forms modelled are  [-]digits[.digits]
\* and "nan"; every other text over the model's alphabet is a ValueError.
parse_float(s) ==
    IF s = <<"n", "a", "n">> THEN Ret(NaN)
    ELSE IF IsDecimal(s) THEN Ret(DecimalValue(s))
    ELSE IF Len(s) > 1 /\ s[1] = "-" /\ IsDecimal(Tail(s))
         THEN Ret(Negate(DecimalValue(Tail(s))))
    ELSE Raise("ValueError", 0)

\* float(x): the identity on a float, a parse on a str
to_float(x) == IF x.ty = "float" THEN Ret(x.f) ELSE parse_float(x.s)

\* round(x, 1) replaced by a truncation toward minus infinity
round_truncate(n, d) == {n \div d}

\* ---------------------------------------------------------- round(x, 1)
\* The candidates for num/den rounded to a whole number.  An exact tie of the
\* real quotient is decided by the binary rounding error of the float
\* computation, so both neighbours are possible outcomes there.
round_outcomes(n, d) ==
    LET q == n \div d
        r == n % d
    IN IF 2 * r < d THEN {q}
       ELSE IF 2 * r > d THEN {q + 1}
       ELSE {q, q + 1}

\* convert_f_to_c on a float: (x - 32) * (5/9), rounded to one decimal.
\* In tenths: 5 * (num - 320 * den) / (9 * den).  round(nan, 1) is nan.
f_to_c_float(x) ==
    IF x.nan THEN {NaN}
    ELSE {Float(c, 1) : c \in round_outcomes(5 * (x.num - 320 * x.den), 9 * x.den)}

\* convert_f_to_c(temp_in_fahrenheit): the set of possible outcomes
convert_f_to_c(temp) ==
    LET p == to_float(temp)
    IN IF p.kind = "raise" THEN {Raise(p.err, 41)}
       ELSE {Ret(c) : c \in f_to_c_float(p.val)}

\* --------------------------------------------------------- convert_date
MonthNames == <<"January", "February", "March", "April", "May", "June", "July",
                "August", "September", "October", "November", "December">>
DayNames == <<"Monday", "Tuesday", "Wednesday", "Thursday", "Friday",
              "Saturday", "Sunday">>
IsLeap(y) == (y % 4 = 0) /\ ((y % 100 # 0) \/ (y % 400 = 0))
DaysInMonth(y, m) ==
    IF m = 2 THEN (IF IsLeap(y) THEN 29 ELSE 28)
    ELSE IF m \in {4, 6, 9, 11} THEN 30 ELSE 31

RECURSIVE DaysBeforeMonth(_, _)
DaysBeforeMonth(y, m) ==
    IF m = 1 THEN 0 ELSE DaysBeforeMonth(y, m - 1) + DaysInMonth(y, m - 1)

\* proleptic Gregorian ordinal, day 1 = 0001-01-01
ToOrdinal(y, m, d) ==
    LET p == y - 1
    IN p * 365 + (p \div 4) - (p \div 100) + (p \div 400) + DaysBeforeMonth(y, m) + d

\* datetime.fromisoformat on the calendar-date form YYYY-MM-DD
IsIsoDate(s) ==
    /\ Len(s) = 10
    /\ s[5] = "-" /\ s[8] = "-"
    /\ \A i \in {1, 2, 3, 4, 6, 7, 9, 10} : IsDigit(s[i])
    /\ LET y == DigitsToInt(SubSeq(s, 1, 4))
           m == DigitsToInt(SubSeq(s, 6, 7))
           d == DigitsToInt(SubSeq(s, 9, 10))
       IN y >= 1 /\ m \in 1..12 /\ d >= 1 /\ d <= DaysInMonth(y, m)

\* convert_date(iso_string): strftime("%A %d %B %Y") of the parsed date
convert_date(s) ==
    IF ~IsIsoDate(s) THEN Raise("ValueError", 27)
    ELSE LET y == DigitsToInt(SubSeq(s, 1, 4))
             m == DigitsToInt(SubSeq(s, 6, 7))
             d == DigitsToInt(SubSeq(s, 9, 10))
         IN Ret([weekday |-> DayNames[((ToOrdinal(y, m, d) + 6) % 7) + 1],
                 day |-> d, month |-> MonthNames[m], year |-> y])

\* ------------------------------------------------------------ aggregation
Continue == [kind |-> "continue", val |-> <<>>, err |-> "none", at |-> 0]

\* [float(val) for val in weather_data]: the first failing element raises
to_float_list(weather_data, line) ==
    IF \E i \in 1..Len(weather_data) : to_float(weather_data[i]).kind = "raise"
    THEN Raise("ValueError", line)
    ELSE Ret([i \in 1..Len(weather_data) |-> to_float(weather_data[i]).val])

\* the builtin min(): keeps the first element and replaces it by an element
\* that compares less than it
RECURSIVE py_min_from(_, _, _)
py_min_from(xs, i, cur) ==
    IF i > Len(xs) THEN cur
    ELSE py_min_from(xs, i + 1, IF FLt(xs[i], cur) THEN xs[i] ELSE cur)
py_min(xs) == py_min_from(xs, 2, xs[1])

\* the builtin max(): replaces the kept element by one that compares greater
RECURSIVE py_max_from(_, _, _)
py_max_from(xs, i, cur) ==
    IF i > Len(xs) THEN cur
    ELSE py_max_from(xs, i + 1, IF FGt(xs[i], cur) THEN xs[i] ELSE cur)
py_max(xs) == py_max_from(xs, 2, xs[1])

\* [index for index, value in enumerate(xs) if value == ext], 0-based
RECURSIVE match_indices_from(_, _, _)
match_indices_from(xs, ext, i) ==
    IF i > Len(xs) THEN <<>>
    ELSE (IF FEq(xs[i], ext) THEN <<i - 1>> ELSE <<>>)
         \o match_indices_from(xs, ext, i + 1)
match_indices(xs, ext) == match_indices_from(xs, ext, 1)

\* min_count[0] in the place of min_count[-1]
first_of(count) == count[1]

\* min_count[-1]
last_of(count) == count[Len(count)]

\* one pass through the body of the while loop of find_min / find_max:
\* a return, a raise, or falling out of the for loop back to the loop test
scan_body(f, weather_data, line) ==
    LET conv == to_float_list(weather_data, line)
    IN IF conv.kind = "raise" THEN conv
       ELSE LET new_weather_data == conv.val
                ext == IF f = "find_min" THEN py_min(new_weather_data)
                       ELSE py_max(new_weather_data)
                count == match_indices(new_weather_data, ext)
            IN IF Len(count) < 2
               THEN (IF Len(count) = 0 THEN Continue
                     ELSE Ret(<<new_weather_data[count[1] + 1], count[1]>>))
               ELSE Ret(<<ext, last_of(count)>>)

find_min_body(weather_data) == scan_body("find_min", weather_data, 84)
find_max_body(weather_data) == scan_body("find_max", weather_data, 106)

\* sum(): float addition, nan is absorbing
FAdd(a, b) ==
    IF a.nan \/ b.nan THEN NaN
    ELSE Float(a.num * b.den + b.num * a.den, a.den * b.den)
RECURSIVE py_sum(_)
py_sum(xs) == IF xs = <<>> THEN Float(0, 1) ELSE FAdd(py_sum(Tail(xs)), Head(xs))

\* a mean that returns nan for an empty list instead of raising
calculate_mean_nan(weather_data) ==
    LET conv == to_float_list(weather_data, 53)
    IN IF conv.kind = "raise" THEN conv
       ELSE IF Len(conv.val) = 0 THEN Ret(NaN)
       ELSE LET total == py_sum(conv.val)
            IN IF total.nan THEN Ret(NaN)
               ELSE Ret(Float(total.num, total.den * Len(conv.val)))

\* calculate_mean(weather_data)
calculate_mean(weather_data) ==
    LET conv == to_float_list(weather_data, 53)
    IN IF conv.kind = "raise" THEN conv
       ELSE IF Len(conv.val) = 0 THEN Raise("ZeroDivisionError", 54)
       ELSE LET total == py_sum(conv.val)
            IN IF total.nan THEN Ret(NaN)
               ELSE Ret(Float(total.num, total.den * Len(conv.val)))

\* the columns read from the wrong index: sublist[2] for the minimum list,
\* sublist[1] for the maximum list
column_other(weather_data, k, line) ==
    LET conv == to_float_list([i \in 1..Len(weather_data) |-> weather_data[i][4 - k]], line)
    IN IF conv.kind = "raise" THEN conv
       ELSE Ret([i \in 1..Len(conv.val) |-> PyFloat(conv.val[i])])

\* ------------------------------------------------------- report generation
\* [float(sublist[k]) for sublist in weather_data]; k is the Python index
column(weather_data, k, line) ==
    LET conv == to_float_list([i \in 1..Len(weather_data) |-> weather_data[i][k + 1]], line)
    IN IF conv.kind = "raise" THEN conv
       ELSE Ret([i \in 1..Len(conv.val) |-> PyFloat(conv.val[i])])

\* the f-string of generate_summary, its fields evaluated left to right; the
\* report is modelled by the values substituted into the fixed template
summary_format(weather_data, number_of_days, min_list, max_list, min_in_week, max_in_week) ==
    IF Len(min_in_week) = 0 THEN {Raise("IndexError", 132)}
    ELSE LET low_date == convert_date(weather_data[min_in_week[2] + 1][1])
         IN IF low_date.kind = "raise" THEN {low_date}
    ELSE IF Len(max_in_week) = 0 THEN {Raise("IndexError", 132)}
    ELSE LET high_date == convert_date(weather_data[max_in_week[2] + 1][1])
         IN IF high_date.kind = "raise" THEN {high_date}
    ELSE LET mean_low == calculate_mean(min_list)
         IN IF mean_low.kind = "raise" THEN {mean_low}
    ELSE LET mean_high == calculate_mean(max_list)
         IN IF mean_high.kind = "raise" THEN {mean_high}
    ELSE {Ret([days |-> number_of_days,
               low |-> lo, low_date |-> low_date.val,
               high |-> hi, high_date |-> high_date.val,
               avg_low |-> al, avg_high |-> ah]) :
            lo \in f_to_c_float(min_in_week[1]),
            hi \in f_to_c_float(max_in_week[1]),
            al \in f_to_c_float(mean_low.val),
            ah \in f_to_c_float(mean_high.val)}

\* a block whose text ends with one newline instead of two
daily_block_no_blank(sublist) ==
    LET date == convert_date(sublist[1])
        lo == convert_f_to_c(sublist[2])
        hi == convert_f_to_c(sublist[3])
    IN IF date.kind = "raise" THEN {date}
       ELSE IF \E o \in lo : o.kind = "raise" THEN lo
       ELSE IF \E o \in hi : o.kind = "raise" THEN hi
       ELSE {Ret(<< <<"----", date.val>>,
                    <<"Minimum Temperature", a.val>>,
                    <<"Maximum Temperature", b.val>> >>) : a \in lo, b \in hi}

\* the text appended for one record by generate_daily_summary: the dated
\* header line, the minimum line, the maximum line and an empty line
daily_block(sublist) ==
    LET date == convert_date(sublist[1])
        lo == convert_f_to_c(sublist[2])
        hi == convert_f_to_c(sublist[3])
    IN IF date.kind = "raise" THEN {date}
       ELSE IF \E o \in lo : o.kind = "raise" THEN lo
       ELSE IF \E o \in hi : o.kind = "raise" THEN hi
       ELSE {Ret(<< <<"----", date.val>>,
                    <<"Minimum Temperature", a.val>>,
                    <<"Maximum Temperature", b.val>>,
                    <<"">> >>) : a \in lo, b \in hi}

\* the exception swallowed and the locals built so far returned
propagate_partial(locals, exc) == Ret(locals)

\* an exception raised inside a function with no handler leaves the function:
\* the caller gets the exception, whatever the locals held
propagate(locals, exc) == exc

\* ------------------------------------------------------------ data loading
\* the "if row" test left out
row_always(row) == TRUE

\* "if row": a row read from a blank line is the empty list
row_truthy(row) == row # <<>>

\* [row[0], float(row[1]), float(row[2])], evaluated left to right
load_record(row) ==
    IF Len(row) < 2 THEN Raise("IndexError", 71)
    ELSE IF parse_float(row[2]).kind = "raise" THEN Raise("ValueError", 71)
    ELSE IF Len(row) < 3 THEN Raise("IndexError", 71)
    ELSE IF parse_float(row[3]).kind = "raise" THEN Raise("ValueError", 71)
    ELSE Ret(<<row[1], PyFloat(parse_float(row[2]).val), PyFloat(parse_float(row[3]).val)>>)

\* a file opened without a with block: an exit leaves it as it is
with_exit_leak(f) == f

\* leaving the with block, normally or by an exception, closes the file
with_exit(f) == "closed"

\* ------------------------------------------------------------------ inputs
SeqsUpTo(S, n) == UNION {[1..k -> S] : k \in 0..n}
MinOf2(a, b) == IF a < b THEN a ELSE b

IsoJuly(d1, d2) == <<"2", "0", "2", "1", "-", "0", "7", "-", d1, d2>>
BadDate == <<"2", "0", "2", "1", "-", "1", "3", "-", "0", "1">>
Txt40 == <<"4", "0">>
Txt41 == <<"4", "1", ".", "0">>
Txt63 == <<"6", "3", ".", "0">>
Txt49 == <<"4", "9">>
Txt67 == <<"6", "7">>
TxtNan == <<"n", "a", "n">>
TxtBad == <<"a", "b", "c">>
F(t) == PyFloat(Float(t, 1))

\* arguments of convert_f_to_c: every whole tenth in 0 .. MaxTenths, the
\* boiling point, and texts (one of them an exact tie, one unparsable)
MaxTenths == 1100
TempInputs ==
    {F(t) : t \in 0..MaxTenths} \cup
    {F(2120), F(0 - 400), PyFloat(NaN), PyStr(<<"3", "2">>), PyStr(<<"2", "1", "2">>),
     PyStr(<<"9", "8", ".", "6">>), PyStr(<<"-", "4", "0">>), PyStr(<<"3", "2", ".">>),
     PyStr(<<"3", "2", ".", "0", "9">>), PyStr(TxtNan), PyStr(TxtBad), PyStr(<<>>)}

DateInputs == {IsoJuly("0", "6"), IsoJuly("3", "1"), IsoJuly("3", "2"), BadDate, TxtBad}

\* elements of the sequences handed to find_min, find_max and calculate_mean
ValuePool == {F(400), F(500), F(410), PyFloat(NaN), PyStr(Txt40), PyStr(TxtBad)}
ValueLists == SeqsUpTo(ValuePool, MaxLen)

\* records of the datasets handed to the two reports
RecordPool ==
    {<<IsoJuly("0", "6"), F(410), F(630)>>,
     <<IsoJuly("0", "2"), F(490), F(670)>>,
     <<IsoJuly("0", "3"), F(410), F(670)>>,
     <<IsoJuly("0", "4"), F(700), F(300)>>,
     <<IsoJuly("0", "5"), PyFloat(NaN), F(610)>>,
     <<IsoJuly("0", "5"), PyStr(Txt41), PyStr(TxtBad)>>,
     <<BadDate, F(550), F(610)>>}
ExampleDataset ==
    <<<<IsoJuly("0", "2"), F(490), F(670)>>,
      <<IsoJuly("0", "3"), F(570), F(680)>>,
      <<IsoJuly("0", "4"), F(560), F(620)>>,
      <<IsoJuly("0", "5"), F(550), F(610)>>,
      <<IsoJuly("0", "6"), F(410), F(630)>>>>
Datasets == SeqsUpTo(RecordPool, MaxLen) \cup {ExampleDataset}

\* rows as csv.reader yields them: a list of cell texts, empty for a blank line
HeaderRow == <<<<"d", "a", "t", "e">>, <<"m", "i", "n">>, <<"m", "a", "x">>>>
RowPool ==
    {HeaderRow,
     <<>>,
     <<IsoJuly("0", "6"), Txt41, Txt63>>,
     <<IsoJuly("0", "2"), Txt49, Txt67>>,
     <<IsoJuly("0", "3"), Txt41, Txt67, TxtBad>>,
     <<IsoJuly("0", "4"), TxtNan, Txt63>>,
     <<IsoJuly("0", "5"), Txt49>>,
     <<BadDate, Txt49, TxtBad>>}
Sources ==
    {[exists |-> FALSE, rows |-> <<>>]} \cup
    {[exists |-> TRUE, rows |-> r] : r \in SeqsUpTo(RowPool, MaxRows)}

\* ------------------------------------------------------------------- state
VARIABLES
    pc,                \* position of the running call, "idle" or "done"
    op,                \* the function the caller invoked
    arg,               \* its argument
    result,            \* what the caller received
    caller,            \* who called find_min / find_max
    file,              \* load_data_from_csv: the file object
    opens,             \* load_data_from_csv: calls of open() in this call
    pos,               \* load_data_from_csv: rows consumed from the reader
    csv_list,          \* load_data_from_csv: csv_list
    fm_op,             \* find_min or find_max
    fm_data,           \* find_min / find_max: weather_data
    iters,             \* find_min / find_max: entries into the while body
    min_temp_list,     \* generate_summary locals
    max_temp_list,
    min_temp_in_week,
    max_temp_in_week,
    idx,               \* generate_daily_summary: records consumed by the for
    summary_string     \* generate_daily_summary: summary_string

vars == <<pc, op, arg, result, caller, file, opens, pos, csv_list, fm_op, fm_data,
          iters, min_temp_list, max_temp_list, min_temp_in_week, max_temp_in_week,
          idx, summary_string>>
loadVars == <<file, opens, pos, csv_list>>
findVars == <<caller, fm_op, fm_data, iters>>
summaryVars == <<min_temp_list, max_temp_list, min_temp_in_week, max_temp_in_week>>
dailyVars == <<idx, summary_string>>

Init ==
    /\ pc = "idle" /\ op = "none" /\ arg = <<>> /\ result = NoResult
    /\ caller = "none" /\ file = "closed" /\ opens = 0 /\ pos = 0 /\ csv_list = <<>>
    /\ fm_op = "none" /\ fm_data = <<>> /\ iters = 0
    /\ min_temp_list = <<>> /\ max_temp_list = <<>>
    /\ min_temp_in_week = <<>> /\ max_temp_in_week = <<>>
    /\ idx = 0 /\ summary_string = <<>>

\* the call ends: the caller receives outcome o
Finish(o) == result' = o /\ pc' = "done"

\* ---------------------------------------------------- single-step functions
Call_convert_f_to_c ==
    /\ pc = "idle"
    /\ \E t \in TempInputs : \E o \in convert_f_to_c(t) :
          op' = "convert_f_to_c" /\ arg' = t /\ Finish(o)
    /\ UNCHANGED <<loadVars, findVars, summaryVars, dailyVars>>

Call_convert_date ==
    /\ pc = "idle"
    /\ \E s \in DateInputs : op' = "convert_date" /\ arg' = s /\ Finish(convert_date(s))
    /\ UNCHANGED <<loadVars, findVars, summaryVars, dailyVars>>

Call_calculate_mean ==
    /\ pc = "idle"
    /\ \E v \in ValueLists :
          op' = "calculate_mean" /\ arg' = v /\ Finish(calculate_mean(v))
    /\ UNCHANGED <<loadVars, findVars, summaryVars, dailyVars>>

\* ------------------------------------------------------ find_min / find_max
Call_find ==
    /\ pc = "idle"
    /\ \E f \in {"find_min", "find_max"} : \E v \in ValueLists :
          /\ op' = f /\ arg' = v
          /\ fm_op' = f /\ fm_data' = v /\ caller' = "user" /\ iters' = 0
    /\ pc' = "fm_while"
    /\ UNCHANGED <<result, loadVars, summaryVars, dailyVars>>

\* the value find_min / find_max returns reaches its caller
Deliver(t) ==
    IF caller = "user"
    THEN Finish(Ret(t)) /\ UNCHANGED summaryVars
    ELSE IF fm_op = "find_min"
    THEN /\ min_temp_in_week' = t /\ pc' = "gs_130"
         /\ UNCHANGED <<result, min_temp_list, max_temp_list, max_temp_in_week>>
    ELSE /\ max_temp_in_week' = t /\ pc' = "gs_132"
         /\ UNCHANGED <<result, min_temp_list, max_temp_list, min_temp_in_week>>

\* "while weather_data:" - an empty list ends the loop and () is returned,
\* a non-empty one enters the body
fm_while ==
    /\ pc = "fm_while"
    /\ IF fm_data = <<>>
       THEN Deliver(<<>>) /\ UNCHANGED iters
       ELSE /\ pc' = "fm_body" /\ iters' = MinOf2(iters + 1, MaxIters)
            /\ UNCHANGED <<result, summaryVars>>
    /\ UNCHANGED <<op, arg, caller, fm_op, fm_data, loadVars, dailyVars>>

\* the body of the while loop; falling out of the for loop without a return
\* leads back to the loop test
fm_body ==
    /\ pc = "fm_body"
    /\ LET o == IF fm_op = "find_min" THEN find_min_body(fm_data)
                ELSE find_max_body(fm_data)
       IN CASE o.kind = "return" -> Deliver(o.val)
            [] o.kind = "raise" -> Finish(propagate(<<>>, o)) /\ UNCHANGED summaryVars
            [] OTHER -> pc' = "fm_while" /\ UNCHANGED <<result, summaryVars>>
    /\ UNCHANGED <<op, arg, findVars, loadVars, dailyVars>>

\* --------------------------------------------------------- generate_summary
\* lines 126-128: the two columns are extracted and converted
Call_generate_summary ==
    /\ pc = "idle"
    /\ \E d \in Datasets :
          /\ op' = "generate_summary" /\ arg' = d
          /\ LET lo == column(d, 1, 127)
                 hi == column(d, 2, 128)
             IN IF lo.kind = "raise"
                THEN Finish(propagate(<<>>, lo)) /\ UNCHANGED <<min_temp_list, max_temp_list>>
                ELSE IF hi.kind = "raise"
                THEN Finish(propagate(<<>>, hi)) /\ UNCHANGED <<min_temp_list, max_temp_list>>
                ELSE /\ min_temp_list' = lo.val /\ max_temp_list' = hi.val
                     /\ pc' = "gs_129" /\ UNCHANGED result
    /\ UNCHANGED <<min_temp_in_week, max_temp_in_week, loadVars, findVars, dailyVars>>

\* line 129: min_temp_in_week = find_min(min_temp_list)
gs_129 ==
    /\ pc = "gs_129"
    /\ caller' = "generate_summary" /\ fm_op' = "find_min"
    /\ fm_data' = min_temp_list /\ iters' = 0 /\ pc' = "fm_while"
    /\ UNCHANGED <<op, arg, result, summaryVars, loadVars, dailyVars>>

\* line 130: max_temp_in_week = find_max(max_temp_list)
gs_130 ==
    /\ pc = "gs_130"
    /\ caller' = "generate_summary" /\ fm_op' = "find_max"
    /\ fm_data' = max_temp_list /\ iters' = 0 /\ pc' = "fm_while"
    /\ UNCHANGED <<op, arg, result, summaryVars, loadVars, dailyVars>>

\* line 132: the report is formatted and returned
gs_132 ==
    /\ pc = "gs_132"
    /\ \E o \in summary_format(arg, Len(arg), min_temp_list, max_temp_list,
                               min_temp_in_week, max_temp_in_week) :
          Finish(propagate(<<>>, o))
    /\ UNCHANGED <<op, arg, summaryVars, findVars, loadVars, dailyVars>>

\* --------------------------------------------------- generate_daily_summary
Call_generate_daily_summary ==
    /\ pc = "idle"
    /\ \E d \in Datasets : op' = "generate_daily_summary" /\ arg' = d
    /\ idx' = 0 /\ summary_string' = <<>> /\ pc' = "gds_for"
    /\ UNCHANGED <<result, loadVars, findVars, summaryVars>>

\* one iteration of the for loop (lines 143-147)
gds_for ==
    /\ pc = "gds_for" /\ idx < Len(arg)
    /\ \E o \in daily_block(arg[idx + 1]) :
          IF o.kind = "raise"
          THEN Finish(propagate(summary_string, o)) /\ UNCHANGED dailyVars
          ELSE /\ summary_string' = summary_string \o o.val /\ idx' = idx + 1
               /\ UNCHANGED <<pc, result>>
    /\ UNCHANGED <<op, arg, loadVars, findVars, summaryVars>>

\* line 148: return summary_string
gds_return ==
    /\ pc = "gds_for" /\ idx = Len(arg)
    /\ Finish(Ret(summary_string))
    /\ UNCHANGED <<op, arg, loadVars, findVars, summaryVars, dailyVars>>

\* ------------------------------------------------------- load_data_from_csv
Call_load_data_from_csv ==
    /\ pc = "idle"
    /\ \E src \in Sources : op' = "load_data_from_csv" /\ arg' = src
    /\ csv_list' = <<>> /\ pc' = "load_open"
    /\ UNCHANGED <<result, file, opens, pos, findVars, summaryVars, dailyVars>>

\* line 66: open(csv_file); a missing file raises before anything is opened
load_open ==
    /\ pc = "load_open"
    /\ IF arg.exists
       THEN file' = "open" /\ opens' = opens + 1 /\ pc' = "load_header" /\ UNCHANGED result
       ELSE Finish(propagate(csv_list, Raise("FileNotFoundError", 66))) /\ UNCHANGED <<file, opens>>
    /\ UNCHANGED <<op, arg, pos, csv_list, findVars, summaryVars, dailyVars>>

\* line 68: next(csv_reader) consumes the first row, or raises on a source
\* with no row at all
load_header ==
    /\ pc = "load_header"
    /\ IF arg.rows = <<>>
       THEN /\ file' = with_exit(file)
            /\ Finish(propagate(csv_list, Raise("StopIteration", 68)))
            /\ UNCHANGED pos
       ELSE pos' = 1 /\ pc' = "load_for" /\ UNCHANGED <<file, result>>
    /\ UNCHANGED <<op, arg, opens, csv_list, findVars, summaryVars, dailyVars>>

\* lines 69-71: one iteration of the for loop over the remaining rows
load_for ==
    /\ pc = "load_for" /\ pos < Len(arg.rows)
    /\ pos' = pos + 1
    /\ LET row == arg.rows[pos + 1]
           rec == load_record(row)
       IN IF ~row_truthy(row)
          THEN UNCHANGED <<pc, result, file, csv_list>>
          ELSE IF rec.kind = "raise"
          THEN /\ file' = with_exit(file)
               /\ Finish(propagate(csv_list, rec))
               /\ UNCHANGED csv_list
          ELSE /\ csv_list' = Append(csv_list, rec.val)
               /\ UNCHANGED <<pc, result, file>>
    /\ UNCHANGED <<op, arg, opens, findVars, summaryVars, dailyVars>>

\* the reader is exhausted: the with block is left
load_exit ==
    /\ pc = "load_for" /\ pos = Len(arg.rows)
    /\ file' = with_exit(file) /\ pc' = "load_return"
    /\ UNCHANGED <<op, arg, result, opens, pos, csv_list, findVars, summaryVars, dailyVars>>

\* line 72: return csv_list
load_return ==
    /\ pc = "load_return"
    /\ Finish(Ret(csv_list))
    /\ UNCHANGED <<op, arg, loadVars, findVars, summaryVars, dailyVars>>

\* ------------------------------------------------------------- the caller
\* the caller has its outcome; the next call starts from fresh locals
NextCall ==
    /\ pc = "done"
    /\ pc' = "idle" /\ op' = "none" /\ arg' = <<>> /\ result' = NoResult
    /\ caller' = "none" /\ file' = "closed" /\ opens' = 0 /\ pos' = 0 /\ csv_list' = <<>>
    /\ fm_op' = "none" /\ fm_data' = <<>> /\ iters' = 0
    /\ min_temp_list' = <<>> /\ max_temp_list' = <<>>
    /\ min_temp_in_week' = <<>> /\ max_temp_in_week' = <<>>
    /\ idx' = 0 /\ summary_string' = <<>>

Next ==
    \/ Call_convert_f_to_c
    \/ Call_convert_date
    \/ Call_calculate_mean
    \/ Call_find
    \/ fm_while
    \/ fm_body
    \/ Call_generate_summary
    \/ gs_129
    \/ gs_130
    \/ gs_132
    \/ Call_generate_daily_summary
    \/ gds_for
    \/ gds_return
    \/ Call_load_data_from_csv
    \/ load_open
    \/ load_header
    \/ load_for
    \/ load_exit
    \/ load_return
    \/ NextCall

Spec == Init /\ [][Next]_vars

\* ================================================================ properties
Abs(n) == IF n < 0 THEN 0 - n ELSE n
Done(f) == pc = "done" /\ op = f
Finds == {"find_min", "find_max"}
Parses(v) == to_float(v).kind = "return"
IsNumber(v) == Parses(v) /\ ~to_float(v).val.nan
FloatsOf(v) == [i \in 1..Len(v) |-> to_float(v[i]).val]

\* i is the greatest position of xs holding the value val, which no element
\* of xs is less than (minimum) or greater than (maximum)
IsLastExtreme(f, xs, val, i) ==
    /\ i \in 1..Len(xs)
    /\ FEq(xs[i], val)
    /\ \A j \in 1..Len(xs) : IF f = "find_min" THEN ~FLt(xs[j], val) ELSE ~FGt(xs[j], val)
    /\ \A j \in (i + 1)..Len(xs) : ~FEq(xs[j], val)

TieColumn == <<F(400), F(400), F(500)>>

\* C1: whenever find_min (find_max) returns on a non-empty sequence, it
\* returns the pair (least value, greatest index holding it) (resp. greatest
\* value); a sequence of numbers always gets such a pair; and
\* find_min([40.0, 40.0, 50.0]) = (40.0, 1).
C1_FindExtremeLastIndex ==
    (pc = "done" /\ op \in Finds /\ Len(arg) > 0) =>
        /\ (\A i \in 1..Len(arg) : IsNumber(arg[i])) => result.kind = "return"
        /\ result.kind = "return" =>
              /\ Len(result.val) = 2
              /\ IsLastExtreme(op, FloatsOf(arg), result.val[1], result.val[2] + 1)
        /\ (op = "find_min" /\ arg = TieColumn) => result.val = <<Float(400, 1), 1>>

C1_Witness ==
    /\ Done("find_min") /\ arg = TieColumn
    /\ result.kind = "return" /\ result.val = <<Float(400, 1), 1>>

\* C2: on the empty sequence find_min and find_max return the empty tuple,
\* and calculate_mean ends by raising: it returns no number.
C2_EmptyInput ==
    /\ (pc = "done" /\ op \in Finds /\ Len(arg) = 0) =>
          (result.kind = "return" /\ Len(result.val) = 0)
    /\ (pc = "done" /\ op = "calculate_mean" /\ Len(arg) = 0) =>
          (result.kind = "raise" /\ result.err # "none")

C2_Witness ==
    Done("calculate_mean") /\ Len(arg) = 0 /\ result.kind = "raise"

\* C3: generate_summary on the empty dataset fails with the error raised by
\* the mean over the empty column (line 54); the empty result of find_min is
\* not indexed.
C3_EmptySummaryFailsInMean ==
    (pc = "done" /\ op = "generate_summary" /\ Len(arg) = 0) =>
        (result.kind = "raise" /\ result.err = "ZeroDivisionError" /\ result.at = 54)

\* C4: a returned summary of N >= 1 records reports N days; its lowest value
\* is the Celsius of the least value of the minimum column and its date is
\* that of the last record holding it; likewise the highest value and the
\* maximum column; the example dataset returns and reports 5.0 on Tuesday 06
\* July 2021.
C4_SummaryColumns ==
    (pc = "done" /\ op = "generate_summary" /\ Len(arg) >= 1) =>
        /\ arg = ExampleDataset =>
              /\ result.kind = "return"
              /\ result.val.low = Float(50, 1)
              /\ result.val.low_date =
                    [weekday |-> "Tuesday", day |-> 6, month |-> "July", year |-> 2021]
        /\ result.kind = "return" =>
              LET mins == [i \in 1..Len(arg) |-> to_float(arg[i][2]).val]
                  maxs == [i \in 1..Len(arg) |-> to_float(arg[i][3]).val]
              IN /\ result.val.days = Len(arg)
                 /\ \E i \in 1..Len(arg) :
                       /\ IsLastExtreme("find_min", mins, mins[i], i)
                       /\ 2 * Abs(9 * result.val.low.num - 5 * (mins[i].num - 320)) <= 9
                       /\ result.val.low_date = convert_date(arg[i][1]).val
                 /\ \E i \in 1..Len(arg) :
                       /\ IsLastExtreme("find_max", maxs, maxs[i], i)
                       /\ 2 * Abs(9 * result.val.high.num - 5 * (maxs[i].num - 320)) <= 9
                       /\ result.val.high_date = convert_date(arg[i][1]).val

C4_Witness ==
    /\ Done("generate_summary") /\ arg = ExampleDataset
    /\ result.kind = "return" /\ result.val.days = 5 /\ result.val.low_date.day = 6

\* the lines 4i-3 .. 4i of text are the block of record i of dataset d
IsBlockOf(text, d, i) ==
    /\ text[4 * i - 3] = <<"----", convert_date(d[i][1]).val>>
    /\ text[4 * i - 2][1] = "Minimum Temperature"
    /\ text[4 * i - 2][2] \in f_to_c_float(to_float(d[i][2]).val)
    /\ text[4 * i - 1][1] = "Maximum Temperature"
    /\ text[4 * i - 1][2] \in f_to_c_float(to_float(d[i][3]).val)
    /\ text[4 * i] = <<"">>

\* C5: the text generate_daily_summary has built after k records is k blocks
\* of four lines, block i made of record i alone (so the text of d1 followed
\* by d2 is the text of d1 followed by the text of d2); the returned text
\* covers every record, and the empty dataset returns the empty text.
C5_DailyBlocks ==
    /\ (pc = "gds_for" /\ op = "generate_daily_summary") =>
          /\ Len(summary_string) = 4 * idx
          /\ \A i \in 1..idx : IsBlockOf(summary_string, arg, i)
    /\ (pc = "done" /\ op = "generate_daily_summary" /\ result.kind = "return") =>
          /\ Len(result.val) = 4 * Len(arg)
          /\ \A i \in 1..Len(arg) : IsBlockOf(result.val, arg, i)
    /\ (pc = "done" /\ op = "generate_daily_summary" /\ Len(arg) = 0) =>
          (result.kind = "return" /\ Len(result.val) = 0)

C5_Witness ==
    /\ Done("generate_daily_summary") /\ Len(arg) = 2 /\ arg[1] # arg[2]
    /\ result.kind = "return" /\ Len(result.val) = 8

NonBlank(row) == row # <<>>
WellFormedRow(row) ==
    Len(row) >= 3 /\ parse_float(row[2]).kind = "return" /\ parse_float(row[3]).kind = "return"
DataRows(src) == SelectSeq(Tail(src.rows), NonBlank)

\* C6: a source of a first row followed by blank and well-formed rows loads
\* into one record per non-blank row after the first, in order, each record
\* the date text and the two parsed temperatures of its row and nothing else.
C6_LoadRecords ==
    (/\ pc = "done" /\ op = "load_data_from_csv"
     /\ arg.exists /\ Len(arg.rows) >= 1
     /\ \A i \in 2..Len(arg.rows) : ~NonBlank(arg.rows[i]) \/ WellFormedRow(arg.rows[i])) =>
        /\ result.kind = "return"
        /\ Len(result.val) = Len(DataRows(arg))
        /\ \A i \in 1..Len(DataRows(arg)) :
              LET row == DataRows(arg)[i]
              IN result.val[i] = <<row[1], PyFloat(parse_float(row[2]).val),
                                   PyFloat(parse_float(row[3]).val)>>

C6_Witness ==
    /\ Done("load_data_from_csv")
    /\ arg.rows = <<HeaderRow, <<IsoJuly("0", "3"), Txt41, Txt67, TxtBad>>, <<>>>>
    /\ result.kind = "return" /\ Len(result.val) = 1

BadRow(row) == NonBlank(row) /\ ~WellFormedRow(row)
BadRecord(rec) ==
    \/ convert_date(rec[1]).kind = "raise"
    \/ ~Parses(rec[2])
    \/ ~Parses(rec[3])

\* C7: a load that meets a malformed row, and a daily summary that meets a
\* record with an invalid date or temperature, never goes past it and ends
\* by raising: the caller receives neither the rows nor the blocks built
\* before it.
C7_NoPartialResult ==
    /\ op = "load_data_from_csv" =>
          \A b \in 2..Len(arg.rows) :
             (arg.exists /\ BadRow(arg.rows[b])) =>
                /\ pos <= b
                /\ pc # "load_return"
                /\ pc = "done" => (result.kind = "raise" /\ Len(result.val) = 0)
    /\ op = "generate_daily_summary" =>
          \A b \in 1..Len(arg) :
             BadRecord(arg[b]) =>
                /\ idx < b
                /\ pc = "done" => (result.kind = "raise" /\ Len(result.val) = 0)

C7_Witness ==
    /\ Done("load_data_from_csv") /\ Len(arg.rows) = 3
    /\ ~BadRow(arg.rows[2]) /\ BadRow(arg.rows[3])
    /\ Len(csv_list) = 1 /\ result.kind = "raise"

\* C8: a load opens its source at most once; rows are consumed only while
\* the file is open; and once the call has finished, by a return or by any
\* raise after the open, the file is closed.
C8_SourceReleased ==
    /\ [](/\ opens <= 1
          /\ pc \in {"load_header", "load_for"} => file = "open"
          /\ (pc \in {"load_return", "done"} /\ op = "load_data_from_csv") => file = "closed")
    /\ [][pos' > pos => file = "open"]_vars

C8_Witness ==
    /\ Done("load_data_from_csv") /\ result.kind = "raise" /\ result.at = 71
    /\ opens = 1 /\ pos >= 2 /\ file = "closed"

\* C9: convert_f_to_c of a number returns a whole number of tenths within
\* half a tenth of (value - 32) * 5/9; 32 gives 0.0, 212 gives 100.0, 98.6
\* gives 37.0, and the text "32" gives what the number 32 gives.
C9_Rounding ==
    (pc = "done" /\ op = "convert_f_to_c") =>
        /\ IsNumber(arg) =>
              LET x == to_float(arg).val
              IN /\ result.kind = "return"
                 /\ ~result.val.nan /\ result.val.den = 1
                 /\ 2 * Abs(9 * x.den * result.val.num - 5 * (x.num - 320 * x.den))
                       <= 9 * x.den
        /\ arg \in {F(320), PyStr(<<"3", "2">>)} => result.val = Float(0, 1)
        /\ arg \in {F(2120), PyStr(<<"2", "1", "2">>)} => result.val = Float(1000, 1)
        /\ arg \in {F(986), PyStr(<<"9", "8", ".", "6">>)} => result.val = Float(370, 1)

C9_Witness ==
    /\ Done("convert_f_to_c") /\ arg = PyStr(<<"3", "2">>)
    /\ result.kind = "return" /\ result.val = Float(0, 1)

\* C10: every call of find_min and find_max terminates: the while loop is
\* left on its first iteration, its body is never entered a second time.
C10_LoopLeftOnFirstIteration == iters <= 1

====
